---- MODULE Spec2Model ----
(***************************************************************************)
(* Model of the NeuroBridge real-time gateway:                             *)
(*   backend/apps/stream/middleware.py   (JWTAuthMiddleware)               *)
(*   backend/apps/stream/consumers.py    (NeuroBridgeConsumer)             *)
(*   backend/apps/assistant_sessions/models.py (Session, EncryptedMetadata)*)
(*                                                                         *)
(* One consumer instance per connection.  A consumer handles one inbound   *)
(* event at a time (websocket.connect, websocket.receive, a channel-layer  *)
(* event, websocket.disconnect); a handler that awaits a Store call and    *)
(* then replies / fans out is split at the Store call, so that other       *)
(* connections interleave between the commit and the notification.         *)
(***************************************************************************)
EXTENDS Integers, Sequences, FiniteSets, TLC

\* ---------------------------------------------------------------- bounds
MaxFrames == 2          \* client frames accepted over all connections
MaxSessions == 3        \* Session rows the table may hold
MaxClock == 2           \* last clock tick
TicksPerSecond == 2     \* clock ticks per second (sub-second resolution)

\* ------------------------------------------------------------- constants
Conns == {"c1", "c2"}           \* connection slots (channel names)
Users == {1, 2}                 \* rows of the user table
GhostId == 3                    \* an id with no row in the user table
Anonymous == 0                  \* AnonymousUser
None == 0                       \* a missing / falsy JSON field
Null == -1                      \* SQL NULL in a nullable column
NoGroup == -1                   \* consumer has no user_group attribute
AuthFailedCode == 4001
IvBytes == 12

\* ---------------------------------------------------------------- tokens
\* A token as the middleware sees it: the query parameter may be absent;
\* a present token is well-formed or not, correctly signed or not, expired
\* or not, and carries a user_id claim or none.
Tok(p, w, s, e, u) ==
    [present |-> p, wellformed |-> w, signed |-> s, expired |-> e, user_id |-> u]

NoToken == Tok(FALSE, FALSE, FALSE, FALSE, None)

Tokens ==
    {NoToken,
     Tok(TRUE, FALSE, TRUE, FALSE, 1),      \* malformed
     Tok(TRUE, TRUE, FALSE, FALSE, 1),      \* wrong signature
     Tok(TRUE, TRUE, TRUE, TRUE, 1),        \* expired
     Tok(TRUE, TRUE, TRUE, FALSE, None),    \* no user_id claim
     Tok(TRUE, TRUE, TRUE, FALSE, GhostId)} \* identity no longer exists
    \cup {Tok(TRUE, TRUE, TRUE, FALSE, u) : u \in Users}

jwt_decode_noverify(tok) ==
    IF ~tok.wellformed THEN "InvalidTokenError"
    ELSE IF tok.expired THEN "ExpiredSignatureError"
    ELSE "payload"

\* jwt.decode(token, SECRET_KEY, algorithms=['HS256'])
jwt_decode(tok) ==
    IF ~tok.wellformed THEN "InvalidTokenError"
    ELSE IF ~tok.signed THEN "InvalidTokenError"
    ELSE IF tok.expired THEN "ExpiredSignatureError"
    ELSE "payload"

get_user_from_token_noexp(tok) ==
    IF jwt_decode(tok) \notin {"payload", "ExpiredSignatureError"} THEN Anonymous
    ELSE IF tok.user_id = None THEN Anonymous
    ELSE IF tok.user_id \notin Users THEN Anonymous
    ELSE tok.user_id

\* get_user_from_token: the user of the claim, or AnonymousUser
get_user_from_token(tok) ==
    IF jwt_decode(tok) # "payload" THEN Anonymous
    ELSE IF tok.user_id = None THEN Anonymous
    ELSE IF tok.user_id \notin Users THEN Anonymous
    ELSE tok.user_id

\* JWTAuthMiddleware.__call__: scope['user']
scope_user(tok) ==
    IF tok.present THEN get_user_from_token(tok) ELSE Anonymous

is_authenticated_always(u) == TRUE
\* user.is_authenticated: False for AnonymousUser only
is_authenticated(u) == u # Anonymous


\* --------------------------------------------------------------- base64
\* A base64 text is modelled by its shape: the number of alphabet
\* characters and of trailing '=' characters.  The bytes stay opaque.
B64(n, p) == [chars |-> n, pad |-> p]
EmptyText == B64(0, 0)
TruthyAlways(txt) == TRUE
Truthy(txt) == txt.chars + txt.pad > 0
DecodeError == -1

\* base64.b64decode: the decoded byte length, or DecodeError (binascii.Error)
b64decode(txt) ==
    IF (txt.chars + txt.pad) % 4 # 0 \/ txt.chars % 4 = 1 THEN DecodeError
    ELSE (txt.chars * 3) \div 4

IvInputs == {EmptyText, B64(16, 0), B64(22, 2), B64(15, 0)}
BlobInputs == {EmptyText, B64(4, 0)}

\* ----------------------------------------------------------------- state
VARIABLES
    pc,          \* per connection: where its consumer is
    token,       \* per connection: the token of the connection request
    user,        \* per connection: self.user (scope['user'])
    user_group,  \* per connection: self.user_group, NoGroup if unset
    close_code,  \* per connection: code of a server-side close, 0 if none
    cur,         \* per connection: session id held by the in-flight handler
    success,     \* per connection: what end_session returned to the handler
    frame_type,  \* per connection: data['type'] of the in-flight handler
    groups,      \* channel layer: group name -> set of channel names
    inbox,       \* channel layer: per channel, events awaiting dispatch
    outbox,      \* per connection: messages sent to the client, in order
    sessions,    \* Session table: row i has primary key i
    metadata,    \* EncryptedMetadata table: row i has primary key i
    now,         \* wall clock in ticks
    frames       \* client frames received so far

vars == <<pc, token, user, user_group, close_code, cur, success, frame_type,
          groups, inbox, outbox, sessions, metadata, now, frames>>

\* f"user_{self.user.id}"
GroupNameShared(u) == 0
GroupName(u) == u

GroupNames == {GroupName(u) : u \in Users}

\* Connection states of the gateway, read off the consumer's position.
Connecting(c) == pc[c] \in {"new", "accept"}
Closed(c) == pc[c] = "closed"
Authenticated(c) == ~Connecting(c) /\ ~Closed(c)

\* Outbound JSON objects; fields a message type does not carry are None / "".
Msg(t, i, a, m) == [type |-> t, id |-> i, action |-> a, message |-> m]
ErrorMsg(m) == Msg("error", None, "", m)

\* self.send_json / self.send_error on connection c
Send(c, m) == outbox' = [outbox EXCEPT ![c] = Append(@, m)]

\* Rows the Session table holds when the gateway starts serving: Sessions
\* created earlier (SessionViewSet.perform_create, or an earlier connection).
SeedRow(u) ==
    [user |-> u, title |-> "", started_at |-> 0, ended_at |-> Null,
     duration_seconds |-> Null, is_active |-> TRUE]
SeedSessions == <<SeedRow(1), SeedRow(2)>>

Init ==
    /\ pc = [c \in Conns |-> "new"]
    /\ token = [c \in Conns |-> NoToken]
    /\ user = [c \in Conns |-> Anonymous]
    /\ user_group = [c \in Conns |-> NoGroup]
    /\ close_code = [c \in Conns |-> 0]
    /\ cur = [c \in Conns |-> None]
    /\ success = [c \in Conns |-> FALSE]
    /\ frame_type = [c \in Conns |-> ""]
    /\ groups = [g \in GroupNames |-> {}]
    /\ inbox = [c \in Conns |-> <<>>]
    /\ outbox = [c \in Conns |-> <<>>]
    /\ sessions = SeedSessions
    /\ metadata = <<>>
    /\ now = 0
    /\ frames = 0

\* timezone.now(): the wall clock is read; it has not gone backwards since
\* the last reading.
ReadClock == now' \in now..MaxClock

\* ------------------------------------------------------------ handshake
\* JWTAuthMiddleware.__call__ resolves the token into scope['user'];
\* connect(), lines 52-58, then rejects an unauthenticated user (the
\* disconnect() that follows finds no user_group), or, lines 60-67, joins
\* the user's group.
Connect(c, tok) ==
    /\ pc[c] = "new"
    /\ token' = [token EXCEPT ![c] = tok]
    /\ user' = [user EXCEPT ![c] = scope_user(tok)]
    /\ IF ~is_authenticated(scope_user(tok))
       THEN /\ close_code' = [close_code EXCEPT ![c] = AuthFailedCode]
            /\ pc' = [pc EXCEPT ![c] = "closed"]
            /\ UNCHANGED <<user_group, groups>>
       ELSE /\ user_group' =
                 [user_group EXCEPT ![c] = GroupName(scope_user(tok))]
            /\ groups' =
                 [groups EXCEPT ![GroupName(scope_user(tok))] = @ \cup {c}]
            /\ pc' = [pc EXCEPT ![c] = "accept"]
            /\ UNCHANGED close_code
    /\ UNCHANGED <<cur, success, frame_type, inbox, outbox, sessions,
                   metadata, now, frames>>

EstablishedMsgNoId(c) == Msg("connection.established", None, "", "")
EstablishedMsg(c) == Msg("connection.established", user[c], "", "")

\* connect(), lines 70-80: accept, then the connection confirmation
ConnectEstablished(c) ==
    /\ pc[c] = "accept"
    /\ Send(c, EstablishedMsg(c))
    /\ pc' = [pc EXCEPT ![c] = "idle"]
    /\ UNCHANGED <<token, user, user_group, close_code, cur, success, frame_type,
                   groups, inbox,
                   sessions, metadata, now, frames>>

DisconnectNoDiscard(c) ==
    /\ pc[c] = "idle"
    /\ pc' = [pc EXCEPT ![c] = "closed"]
    /\ UNCHANGED <<token, user, user_group, close_code, cur, success,
                   frame_type, groups, inbox, outbox, sessions, metadata,
                   now, frames>>
\* disconnect(): leave the group if one was joined
Disconnect(c) ==
    /\ pc[c] = "idle"
    /\ groups' = IF user_group[c] # NoGroup
                 THEN [groups EXCEPT ![user_group[c]] = @ \ {c}]
                 ELSE groups
    /\ pc' = [pc EXCEPT ![c] = "closed"]
    /\ UNCHANGED <<token, user, user_group, close_code, cur, success, frame_type, inbox,
                   outbox, sessions, metadata, now, frames>>

\* ------------------------------------------------------------- dispatch
\* Values of the 'type' field a client may send; None is a missing field.
TypeTags == {"session.start", "session_start", "session.end",
             "metadata.sync", "presence.ping", "session.update"}

\* message_type.replace('.', '_')
DotToUnderscore(t) ==
    CASE t = "session.start" -> "session_start"
      [] t = "session.end" -> "session_end"
      [] t = "metadata.sync" -> "metadata_sync"
      [] t = "presence.ping" -> "presence_ping"
      [] t = "session.update" -> "session_update"
      [] OTHER -> t

\* the handle_* methods of the consumer
Handlers == {"session_start", "session_end", "metadata_sync", "presence_ping"}

\* getattr(self, f"handle_{...}", None): the handler's name, or None
HandlerFor(t) ==
    IF DotToUnderscore(t) \in Handlers THEN DotToUnderscore(t) ELSE "None"

\* f"Unknown message type: {message_type}"
UnknownTypeText(t) ==
    IF t = "session.update" THEN "Unknown message type: session.update"
    ELSE "Unknown message type"

FrameArrivesAnytime(c) ==
    /\ pc[c] \notin {"new", "accept", "closed"}
    /\ frames < MaxFrames
    /\ frames' = frames + 1

\* receive() is entered: the consumer is between events and a frame arrives
FrameArrives(c) ==
    /\ pc[c] = "idle"
    /\ frames < MaxFrames
    /\ frames' = frames + 1

ReceiveRejectedCloses(c, kind) ==
    /\ FrameArrives(c)
    /\ \/ kind = "invalid_json" /\ Send(c, ErrorMsg("Invalid JSON"))
       \/ kind = "missing_type"
            /\ Send(c, ErrorMsg("Missing 'type' field in message"))
       \/ kind \in TypeTags /\ HandlerFor(kind) = "None"
            /\ Send(c, ErrorMsg(UnknownTypeText(kind)))
       \/ kind = "nonstring_type"
            /\ Send(c, ErrorMsg(
                  "Internal error: 'int' object has no attribute 'replace'"))
       \/ kind = "non_object"
            /\ Send(c, ErrorMsg(
                  "Internal error: 'list' object has no attribute 'get'"))
    /\ pc' = [pc EXCEPT ![c] = "closed"]
    /\ UNCHANGED <<token, user, user_group, close_code, cur, success,
                   frame_type, groups, inbox, sessions, metadata, now>>

\* receive(), lines 101-107 and 114-121: the frame reaches no handler
ReceiveRejected(c, kind) ==
    /\ FrameArrives(c)
    /\ \/ kind = "invalid_json" /\ Send(c, ErrorMsg("Invalid JSON"))
       \/ kind = "missing_type"
            /\ Send(c, ErrorMsg("Missing 'type' field in message"))
       \/ kind \in TypeTags /\ HandlerFor(kind) = "None"
            /\ Send(c, ErrorMsg(UnknownTypeText(kind)))
       \/ kind = "nonstring_type"
            /\ Send(c, ErrorMsg(
                  "Internal error: 'int' object has no attribute 'replace'"))
       \/ kind = "non_object"
            /\ Send(c, ErrorMsg(
                  "Internal error: 'list' object has no attribute 'get'"))
    /\ UNCHANGED <<pc, token, user, user_group, close_code, cur, success,
                   frame_type, groups, inbox, sessions, metadata, now>>

\* --------------------------------------------------------------- Store
self_user_revalidated(c) == scope_user(token[c])
\* self.user: the identity the Store calls of connection c are made for
self_user(c) == user[c]

NewSessionIdReused == Len(sessions)
\* the primary key the table assigns to the next Session row
NewSessionId == Len(sessions) + 1

\* Session.objects.create(user=..., title=...): auto_now_add, defaults
NewSession(u, title) ==
    [user |-> u, title |-> title, started_at |-> now', ended_at |-> Null,
     duration_seconds |-> Null, is_active |-> TRUE]

\* Session.objects.get(id=session_id, user=self.user) finds a row
SessionExistsActive(sid, u) ==
    sid \in 1..Len(sessions) /\ sessions[sid].user = u /\ sessions[sid].is_active
SessionExistsAnyOwner(sid, u) == sid \in 1..Len(sessions)
SessionExists(sid, u) ==
    sid \in 1..Len(sessions) /\ sessions[sid].user = u

EndedRowNoDuration(row) ==
    [row EXCEPT !.ended_at = now', !.is_active = FALSE]
EndedRowRetitles(row) ==
    [row EXCEPT !.ended_at = now',
                !.is_active = FALSE,
                !.title = "ended",
                !.duration_seconds = (now' - row.started_at) \div TicksPerSecond]
EndedRowKeepsActive(row) ==
    [row EXCEPT !.ended_at = now',
                !.duration_seconds = (now' - row.started_at) \div TicksPerSecond]
EndedRowRoundsUp(row) ==
    [row EXCEPT !.ended_at = now',
                !.is_active = FALSE,
                !.duration_seconds =
                    (now' - row.started_at + TicksPerSecond - 1)
                        \div TicksPerSecond]
\* Session.end_session(): the row that save() writes
EndedRow(row) ==
    [row EXCEPT !.ended_at = now',
                !.is_active = FALSE,
                !.duration_seconds = (now' - row.started_at) \div TicksPerSecond]

\* SessionViewSet.end for caller u and primary key sid: get_object() over
\* get_queryset() (404 when u owns no such row), the is_active guard (400),
\* else end_session() and 200
SessionViewSet_end(sid, u) ==
    IF ~SessionExists(sid, u) THEN "404 not found"
    ELSE IF ~sessions[sid].is_active THEN "400 already ended"
    ELSE "200 ended"

GroupSendAwaitsDrain(g, ev) ==
    /\ \A d \in groups[g] : inbox[d] = <<>>
    /\ inbox' = [d \in Conns |->
                   IF d \in groups[g] THEN Append(inbox[d], ev) ELSE inbox[d]]
GroupSendDropped(g, ev) == inbox' = inbox
\* channel_layer.group_send(group, event)
GroupSend(g, ev) ==
    inbox' = [d \in Conns |->
                IF d \in groups[g] THEN Append(inbox[d], ev) ELSE inbox[d]]

UpdateEvent(a, sid) ==
    [type |-> "session_update", action |-> a, session_id |-> sid]

\* ----------------------------------------------------------- handlers
\* str(e) of the exception a Store call raises when the database backend
\* fails (django.db.OperationalError)
BackendDetail == "could not connect to server"

\* str(e) of Session.DoesNotExist raised by Session.objects.get
DoesNotExistDetail == "Session matching query does not exist."
\* str(e) of binascii.Error raised by base64.b64decode
PaddingDetail == "Incorrect padding"

\* receive(), line 121: f"Internal error: {str(e)}"
InternalErrorText(e) == "Internal error: " \o e
\* handle_metadata_sync, line 222: f"Failed to store metadata: {str(e)}"
StoreMetadataErrorText(e) == "Failed to store metadata: " \o e

HandleSessionStartEndsOthers(c, t) ==
    /\ FrameArrives(c)
    /\ Len(sessions) < MaxSessions
    /\ ReadClock
    /\ sessions' =
          Append([i \in 1..Len(sessions) |->
                     IF sessions[i].user = self_user(c) /\ sessions[i].is_active
                     THEN EndedRow(sessions[i]) ELSE sessions[i]],
                 NewSession(self_user(c), ""))
    /\ cur' = [cur EXCEPT ![c] = NewSessionId]
    /\ frame_type' = [frame_type EXCEPT ![c] = t]
    /\ pc' = [pc EXCEPT ![c] = "session_start_reply"]
    /\ UNCHANGED <<token, user, user_group, close_code, success, groups,
                   inbox, outbox, metadata>>

\* handle_session_start, lines 133-134: create_session
HandleSessionStart(c, t) ==
    /\ FrameArrives(c)
    /\ Len(sessions) < MaxSessions
    /\ ReadClock
    /\ sessions' = Append(sessions, NewSession(self_user(c), ""))
    /\ cur' = [cur EXCEPT ![c] = NewSessionId]
    /\ frame_type' = [frame_type EXCEPT ![c] = t]
    /\ pc' = [pc EXCEPT ![c] = "session_start_reply"]
    /\ UNCHANGED <<token, user, user_group, close_code, success, groups,
                   inbox, outbox, metadata>>

\* handle_session_start, lines 136-150: reply, then notify the group
SessionStartNotify(c) ==
    /\ pc[c] = "session_start_reply"
    /\ Send(c, Msg("session.started", cur[c], "", ""))
    /\ GroupSend(user_group[c], UpdateEvent("started", cur[c]))
    /\ pc' = [pc EXCEPT ![c] = "idle"]
    /\ cur' = [cur EXCEPT ![c] = None]
    /\ frame_type' = [frame_type EXCEPT ![c] = ""]
    /\ UNCHANGED <<token, user, user_group, close_code, success, groups,
                   sessions, metadata, now, frames>>

\* handle_session_end, lines 160-165, with end_session, lines 265-274
HandleSessionEnd(c, t, sid) ==
    /\ FrameArrives(c)
    /\ IF sid = None
       THEN /\ Send(c, ErrorMsg("Missing session_id"))
            /\ UNCHANGED <<pc, cur, success, frame_type, sessions, now>>
       ELSE /\ cur' = [cur EXCEPT ![c] = sid]
            /\ frame_type' = [frame_type EXCEPT ![c] = t]
            /\ pc' = [pc EXCEPT ![c] = "session_end_reply"]
            /\ UNCHANGED outbox
            /\ IF SessionExists(sid, self_user(c))
               THEN /\ ReadClock
                    /\ sessions' = [sessions EXCEPT ![sid] = EndedRow(@)]
                    /\ success' = [success EXCEPT ![c] = TRUE]
               ELSE /\ success' = [success EXCEPT ![c] = FALSE]
                    /\ UNCHANGED <<sessions, now>>
    /\ UNCHANGED <<token, user, user_group, close_code, groups, inbox,
                   metadata>>

SessionEndNotifyAlways(c) ==
    /\ pc[c] = "session_end_reply"
    /\ IF success[c]
       THEN Send(c, Msg("session.ended", cur[c], "", ""))
       ELSE Send(c, ErrorMsg("Failed to end session"))
    /\ GroupSend(user_group[c], UpdateEvent("ended", cur[c]))
    /\ pc' = [pc EXCEPT ![c] = "idle"]
    /\ cur' = [cur EXCEPT ![c] = None]
    /\ success' = [success EXCEPT ![c] = FALSE]
    /\ frame_type' = [frame_type EXCEPT ![c] = ""]
    /\ UNCHANGED <<token, user, user_group, close_code, groups, sessions,
                   metadata, now, frames>>
SessionEndNotifyTellsForeign(c) ==
    /\ pc[c] = "session_end_reply"
    /\ IF success[c]
       THEN /\ Send(c, Msg("session.ended", cur[c], "", ""))
            /\ GroupSend(user_group[c], UpdateEvent("ended", cur[c]))
       ELSE /\ Send(c, ErrorMsg(IF cur[c] \in 1..Len(sessions)
                                THEN "Session belongs to another user"
                                ELSE "Failed to end session"))
            /\ UNCHANGED inbox
    /\ pc' = [pc EXCEPT ![c] = "idle"]
    /\ cur' = [cur EXCEPT ![c] = None]
    /\ success' = [success EXCEPT ![c] = FALSE]
    /\ frame_type' = [frame_type EXCEPT ![c] = ""]
    /\ UNCHANGED <<token, user, user_group, close_code, groups, sessions,
                   metadata, now, frames>>
\* handle_session_end, lines 167-183: reply and notify the group, or error
SessionEndNotify(c) ==
    /\ pc[c] = "session_end_reply"
    /\ IF success[c]
       THEN /\ Send(c, Msg("session.ended", cur[c], "", ""))
            /\ GroupSend(user_group[c], UpdateEvent("ended", cur[c]))
       ELSE /\ Send(c, ErrorMsg("Failed to end session"))
            /\ UNCHANGED inbox
    /\ pc' = [pc EXCEPT ![c] = "idle"]
    /\ cur' = [cur EXCEPT ![c] = None]
    /\ success' = [success EXCEPT ![c] = FALSE]
    /\ frame_type' = [frame_type EXCEPT ![c] = ""]
    /\ UNCHANGED <<token, user, user_group, close_code, groups, sessions,
                   metadata, now, frames>>

\* EncryptedMetadata.objects.create(...): the row written
NewMetadata(sid, blob, iv) ==
    [session |-> sid, encrypted_blob |-> b64decode(blob),
     iv |-> b64decode(iv), data_type |-> "general", created_at |-> now']

HandleMetadataSyncNotifies(c, sid, blob, iv) ==
    /\ FrameArrives(c)
    /\ IF sid = None \/ ~Truthy(blob) \/ ~Truthy(iv)
       THEN /\ Send(c, ErrorMsg("Missing required fields for metadata sync"))
            /\ UNCHANGED <<metadata, now, inbox>>
       ELSE IF ~SessionExists(sid, self_user(c))
       THEN /\ Send(c, ErrorMsg(StoreMetadataErrorText(DoesNotExistDetail)))
            /\ UNCHANGED <<metadata, now, inbox>>
       ELSE IF b64decode(blob) = DecodeError \/ b64decode(iv) = DecodeError
       THEN /\ Send(c, ErrorMsg(StoreMetadataErrorText(PaddingDetail)))
            /\ UNCHANGED <<metadata, now, inbox>>
       ELSE /\ ReadClock
            /\ metadata' = Append(metadata, NewMetadata(sid, blob, iv))
            /\ Send(c, Msg("metadata.synced", Len(metadata) + 1, "", ""))
            /\ GroupSend(user_group[c], UpdateEvent("synced", sid))
    /\ UNCHANGED <<pc, token, user, user_group, close_code, cur, success,
                   frame_type, groups, sessions>>

\* handle_metadata_sync with store_metadata
HandleMetadataSync(c, sid, blob, iv) ==
    /\ FrameArrives(c)
    /\ IF sid = None \/ ~Truthy(blob) \/ ~Truthy(iv)
       THEN /\ Send(c, ErrorMsg("Missing required fields for metadata sync"))
            /\ UNCHANGED <<metadata, now>>
       ELSE IF ~SessionExists(sid, self_user(c))
       THEN /\ Send(c, ErrorMsg(StoreMetadataErrorText(DoesNotExistDetail)))
            /\ UNCHANGED <<metadata, now>>
       ELSE IF b64decode(blob) = DecodeError \/ b64decode(iv) = DecodeError
       THEN /\ Send(c, ErrorMsg(StoreMetadataErrorText(PaddingDetail)))
            /\ UNCHANGED <<metadata, now>>
       ELSE /\ ReadClock
            /\ metadata' = Append(metadata, NewMetadata(sid, blob, iv))
            /\ Send(c, Msg("metadata.synced", Len(metadata) + 1, "", ""))
    /\ UNCHANGED <<pc, token, user, user_group, close_code, cur, success,
                   frame_type, groups, inbox, sessions>>

HandlePresencePingNotifies(c) ==
    /\ FrameArrives(c)
    /\ Send(c, Msg("presence.pong", None, "", ""))
    /\ GroupSend(user_group[c], UpdateEvent("presence", None))
    /\ UNCHANGED <<pc, token, user, user_group, close_code, cur, success,
                   frame_type, groups, sessions, metadata, now>>

\* handle_presence_ping
HandlePresencePing(c) ==
    /\ FrameArrives(c)
    /\ Send(c, Msg("presence.pong", None, "", ""))
    /\ UNCHANGED <<pc, token, user, user_group, close_code, cur, success,
                   frame_type, groups, inbox, sessions, metadata, now>>

\* session_update: a channel-layer event is dispatched to the consumer
SessionUpdate(c) ==
    /\ pc[c] = "idle"
    /\ inbox[c] # <<>>
    /\ Send(c, Msg("session.update", Head(inbox[c]).session_id,
                   Head(inbox[c]).action, ""))
    /\ inbox' = [inbox EXCEPT ![c] = Tail(@)]
    /\ UNCHANGED <<pc, token, user, user_group, close_code, cur, success, frame_type,
                   groups,
                   sessions, metadata, now, frames>>

SessionIds == {None} \cup 1..(MaxSessions + 1)

\* receive(), lines 109-113: a frame whose type resolves to a handler
Dispatch(c, t) ==
    \/ HandlerFor(t) = "session_start" /\ HandleSessionStart(c, t)
    \/ HandlerFor(t) = "session_end"
          /\ \E sid \in SessionIds : HandleSessionEnd(c, t, sid)
    \/ HandlerFor(t) = "metadata_sync"
          /\ \E sid \in SessionIds, blob \in BlobInputs, iv \in IvInputs :
                HandleMetadataSync(c, sid, blob, iv)
    \/ HandlerFor(t) = "presence_ping" /\ HandlePresencePing(c)

Next ==
    \/ \E c \in Conns, tok \in Tokens : Connect(c, tok)
    \/ \E c \in Conns : ConnectEstablished(c)
    \/ \E c \in Conns : Disconnect(c)
    \/ \E c \in Conns,
          k \in {"invalid_json", "non_object", "missing_type",
                 "nonstring_type"} \cup TypeTags :
          ReceiveRejected(c, k)
    \/ \E c \in Conns, t \in TypeTags : Dispatch(c, t)
    \/ \E c \in Conns : SessionStartNotify(c)
    \/ \E c \in Conns : SessionEndNotify(c)
    \/ \E c \in Conns : SessionUpdate(c)

Spec == Init /\ [][Next]_vars

\* The event loop resumes a suspended handler and dispatches a queued
\* channel-layer event; what the client does (connect, send, close) is free.
Fairness ==
    \A c \in Conns :
        /\ WF_vars(ConnectEstablished(c))
        /\ WF_vars(SessionStartNotify(c))
        /\ WF_vars(SessionEndNotify(c))
        /\ WF_vars(SessionUpdate(c))

FairSpec == Spec /\ Fairness

\* One peer may stall for ever (a slow device); the event loop still serves
\* every other connection.
SlowPeer == "c2"
FairnessButSlowPeer ==
    \A c \in Conns \ {SlowPeer} :
        /\ WF_vars(ConnectEstablished(c))
        /\ WF_vars(SessionStartNotify(c))
        /\ WF_vars(SessionEndNotify(c))
        /\ WF_vars(SessionUpdate(c))

SlowPeerSpec == Spec /\ FairnessButSlowPeer

\* The exp claim of the token a connection presented passes while the
\* connection is open (jwt would now raise ExpiredSignatureError for it).
TokenExpires(c) ==
    /\ pc[c] \notin {"new", "closed"}
    /\ ~token[c].expired
    /\ token' = [token EXCEPT ![c].expired = TRUE]
    /\ UNCHANGED <<pc, user, user_group, close_code, cur, success,
                   frame_type, groups, inbox, outbox, sessions, metadata,
                   now, frames>>

NextWithExpiry ==
    \/ Next
    \/ \E c \in Conns : TokenExpires(c)

ExpirySpec == Init /\ [][NextWithExpiry]_vars

HandlerStoreFailsUncaught(c, t) ==
    /\ FrameArrives(c)
    /\ HandlerFor(t) \in {"session_start", "session_end", "metadata_sync"}
    /\ pc' = [pc EXCEPT ![c] = "closed"]
    /\ UNCHANGED <<token, user, user_group, close_code, cur, success,
                   frame_type, groups, inbox, outbox, sessions, metadata, now>>

\* A frame reaches its handler and the handler's Store call raises because
\* the backend fails: create_session and end_session let the exception
\* reach receive() (lines 119-121), store_metadata's is caught in
\* handle_metadata_sync (lines 221-222). Nothing was written.
HandlerStoreFails(c, t) ==
    /\ FrameArrives(c)
    /\ HandlerFor(t) \in {"session_start", "session_end", "metadata_sync"}
    /\ IF HandlerFor(t) = "metadata_sync"
       THEN Send(c, ErrorMsg(StoreMetadataErrorText(BackendDetail)))
       ELSE Send(c, ErrorMsg(InternalErrorText(BackendDetail)))
    /\ UNCHANGED <<pc, token, user, user_group, close_code, cur, success,
                   frame_type, groups, inbox, sessions, metadata, now>>

\* str(e) of the exception group_send raises when the channel layer's
\* backend fails
ChannelDetail == "channel layer unavailable"

\* handle_session_start lines 136-150, handle_session_end lines 167-181,
\* when group_send raises: the success reply has been sent already, the
\* exception reaches receive() (lines 119-121), which sends an error too.
FanOutFails(c) ==
    /\ \/ pc[c] = "session_start_reply"
       \/ pc[c] = "session_end_reply" /\ success[c]
    /\ outbox' =
          [outbox EXCEPT ![c] =
              @ \o <<Msg(IF pc[c] = "session_start_reply"
                         THEN "session.started" ELSE "session.ended",
                         cur[c], "", ""),
                     ErrorMsg(InternalErrorText(ChannelDetail))>>]
    /\ pc' = [pc EXCEPT ![c] = "idle"]
    /\ cur' = [cur EXCEPT ![c] = None]
    /\ success' = [success EXCEPT ![c] = FALSE]
    /\ frame_type' = [frame_type EXCEPT ![c] = ""]
    /\ UNCHANGED <<token, user, user_group, close_code, groups, inbox,
                   sessions, metadata, now, frames>>

NextWithFaults ==
    \/ Next
    \/ \E c \in Conns, t \in TypeTags : HandlerStoreFails(c, t)
    \/ \E c \in Conns : FanOutFails(c)

FaultSpec == Init /\ [][NextWithFaults]_vars

\* ------------------------------------------------------ claim vocabulary
\* A token the claims call valid: present, well-formed, correctly signed,
\* unexpired, carrying the id of an existing identity.
ValidToken(tok) ==
    /\ tok.present /\ tok.wellformed /\ tok.signed /\ ~tok.expired
    /\ tok.user_id \in Users

Opened(c) == pc[c] # "new"

RECURSIVE CountIn(_, _)
\* number of elements of sequence q equal to x
CountIn(q, x) ==
    IF q = <<>> THEN 0
    ELSE (IF Head(q) = x THEN 1 ELSE 0) + CountIn(Tail(q), x)

UpdateMsg(a, sid) == Msg("session.update", sid, a, "")
Received(c, a, sid) == CountIn(outbox[c], UpdateMsg(a, sid))
Queued(c, a, sid) == CountIn(inbox[c], UpdateEvent(a, sid))
Rows == 1..Len(sessions)

\* C1: a connection opened with a valid token is never closed as
\* unauthenticated, whatever it has sent starts with connection.established
\* carrying the token's identity (so no fanned-out session.update precedes
\* it), and once its group is joined it reaches Authenticated.
C1_EstablishedFirst ==
    /\ [](\A c \in Conns :
            Opened(c) /\ ValidToken(token[c]) =>
                /\ close_code[c] # AuthFailedCode
                /\ Authenticated(c) \/ Closed(c) => outbox[c] # <<>>
                /\ outbox[c] # <<>> =>
                     Head(outbox[c]) =
                        Msg("connection.established", token[c].user_id, "", ""))
    /\ \A c \in Conns :
            (pc[c] = "accept" /\ ValidToken(token[c])) ~> Authenticated(c)

\* C1 witness: a session.update is queued for a connection that has joined
\* its group and has not yet sent connection.established.
C1_Witness ==
    \E c \in Conns :
        pc[c] = "accept" /\ ValidToken(token[c]) /\ inbox[c] # <<>>

\* C2: a connection whose token is absent or invalid in any way is closed
\* with code 4001, has been sent nothing, and joined no group.
C2_InvalidTokenRejected ==
    \A c \in Conns :
        Opened(c) /\ ~ValidToken(token[c]) =>
            /\ Closed(c)
            /\ close_code[c] = AuthFailedCode
            /\ outbox[c] = <<>>
            /\ inbox[c] = <<>>
            /\ \A g \in DOMAIN groups : c \notin groups[g]

\* C2 witness: a connection with a present but invalid token is rejected
\* while the other connection is exchanging messages.
C2_Witness ==
    \E c, d \in Conns :
        /\ token[c].present /\ ~ValidToken(token[c])
        /\ close_code[c] = AuthFailedCode
        /\ Len(outbox[d]) > 1

\* C3: every Session has is_active exactly when ended_at is null, and a
\* row added to the table is active with ended_at null.
C3_ActiveIffNotEnded ==
    /\ [](\A s \in Rows : sessions[s].is_active = (sessions[s].ended_at = Null))
    /\ [][Len(sessions') > Len(sessions) =>
            /\ sessions'[Len(sessions')].is_active
            /\ sessions'[Len(sessions')].ended_at = Null]_vars

\* C3 witness: a Session created by session.start has been ended.
C3_Witness ==
    \E s \in Rows : s > Len(SeedSessions) /\ ~sessions[s].is_active

\* C4: a Session that session.end has ended is inactive, has ended_at set,
\* and its duration_seconds is the whole seconds of ended_at - started_at,
\* never negative.
C4_DurationWholeSeconds ==
    /\ \A c \in Conns :
          pc[c] = "session_end_reply" /\ success[c] =>
              ~sessions[cur[c]].is_active
    /\ \A s \in Rows :
          ~sessions[s].is_active =>
              /\ sessions[s].ended_at # Null
              /\ sessions[s].duration_seconds # Null
              /\ sessions[s].duration_seconds >= 0
              /\ sessions[s].duration_seconds * TicksPerSecond
                    <= sessions[s].ended_at - sessions[s].started_at
              /\ sessions[s].ended_at - sessions[s].started_at
                    < (sessions[s].duration_seconds + 1) * TicksPerSecond

\* C4 witness: a Session started after time 0 was ended a fraction of a
\* second later.
C4_Witness ==
    \E s \in Rows :
        /\ ~sessions[s].is_active
        /\ sessions[s].started_at > 0
        /\ (sessions[s].ended_at - sessions[s].started_at) % TicksPerSecond # 0

\* C5: a session.end naming a Session the caller owns that is already ended
\* takes the error branch: end_session does not report success, so no
\* session.ended reply and no "ended" broadcast follow.
C5_EndedSessionRejected ==
    [][\A c \in Conns :
          /\ pc[c] = "idle" /\ pc'[c] = "session_end_reply"
          /\ SessionExists(cur'[c], user[c])
          /\ ~sessions[cur'[c]].is_active
          => ~success'[c]]_vars

\* C6: once ended_at and duration_seconds of a Session are set they never
\* change.
C6_DurationWrittenOnce ==
    [][\A s \in Rows :
          sessions[s].ended_at # Null =>
              /\ sessions'[s].ended_at = sessions[s].ended_at
              /\ sessions'[s].duration_seconds = sessions[s].duration_seconds]_vars

\* C7: a metadata.sync whose iv does not decode to 12 bytes persists no
\* record and is not answered with metadata.synced: every step that adds a
\* record or sends metadata.synced adds a record with a 12-byte iv.
C7_BadIvRejected ==
    [][\A c \in Conns :
          \/ Len(metadata') > Len(metadata)
          \/ /\ outbox'[c] # outbox[c]
             /\ outbox'[c][Len(outbox'[c])].type = "metadata.synced"
          => metadata'[Len(metadata')].iv = IvBytes]_vars

\* The ids a fan-out of action a can carry, and how many fan-outs of that
\* action and id can precede one: a Session is started once, by the handler
\* that created it, and never a seeded one.
FanOutIds(a) ==
    IF a = "started" THEN (Len(SeedSessions) + 1)..MaxSessions
    ELSE 1..MaxSessions
FanOutCounts(a) == IF a = "started" THEN {0} ELSE 0..(MaxFrames - 1)

\* C8: when session.start or session.end has succeeded on a connection,
\* every other connection authenticated as the same identity receives one
\* more session.update with that action and session id, unless it closes.
C8_FanOutDelivered ==
    /\ \A d \in Conns : \A a \in {"started", "ended"} :
       \A sid \in FanOutIds(a) : \A n \in FanOutCounts(a) :
          (/\ \E c \in Conns \ {d} :
                  /\ pc[c] = (IF a = "started" THEN "session_start_reply"
                                               ELSE "session_end_reply")
                  /\ a = "ended" => success[c]
                  /\ cur[c] = sid
                  /\ user[c] = user[d]
           /\ Authenticated(d)
           /\ Received(d, a, sid) + Queued(d, a, sid) = n)
          ~> (Closed(d) \/ Received(d, a, sid) > n)
    /\ [][\A c \in Conns, d \in Conns :
            /\ c # d /\ user[c] = user[d] /\ Authenticated(d)
            /\ pc'[c] = "idle"
            /\ \/ pc[c] = "session_start_reply"
               \/ pc[c] = "session_end_reply" /\ success[c]
            => Len(inbox'[d]) = Len(inbox[d]) + 1]_vars

\* C8 witness: the other connection of the identity has received the
\* session.update of a session.start it did not send.
C8_Witness ==
    \E c, d \in Conns : \E sid \in Rows :
        /\ c # d /\ user[c] = user[d]
        /\ CountIn(outbox[c], Msg("session.started", sid, "", "")) = 1
        /\ Received(d, "started", sid) = 1

\* C9: a session.update queued for or sent to a connection always names a
\* Session owned by that connection's identity.
C9_UpdateStaysWithIdentity ==
    \A d \in Conns :
        /\ \A i \in 1..Len(outbox[d]) :
              outbox[d][i].type = "session.update" =>
                  /\ outbox[d][i].id \in Rows
                  /\ sessions[outbox[d][i].id].user = user[d]
        /\ \A i \in 1..Len(inbox[d]) :
              /\ inbox[d][i].session_id \in Rows
              /\ sessions[inbox[d][i].session_id].user = user[d]

\* C9 witness: one identity's connection has received a session.update
\* while a connection of another identity is live and has received none.
C9_Witness ==
    \E c, d \in Conns :
        /\ Authenticated(c) /\ Authenticated(d) /\ user[c] # user[d]
        /\ \E i \in 1..Len(outbox[c]) : outbox[c][i].type = "session.update"
        /\ \A i \in 1..Len(outbox[d]) : outbox[d][i].type # "session.update"
        /\ inbox[d] = <<>>
        /\ Len(outbox[d]) > 1

\* The connection whose consumer takes the step.
Acts(c) == pc'[c] # pc[c] \/ outbox'[c] # outbox[c]

\* C10: a step of a connection changes no Session of another identity and
\* adds no metadata record under such a Session.
C10_ForeignSessionsUntouched ==
    [][\A c \in Conns : Acts(c) =>
          /\ \A s \in Rows :
                sessions[s].user # user[c] => sessions'[s] = sessions[s]
          /\ Len(metadata') > Len(metadata) =>
                sessions[metadata'[Len(metadata')].session].user = user[c]
          /\ \A m \in 1..Len(metadata) : metadata'[m] = metadata[m]]_vars

\* C10 witness: end_session has refused a session.end naming an existing
\* Session of another identity.
C10_Witness ==
    \E c \in Conns :
        /\ pc[c] = "session_end_reply" /\ ~success[c]
        /\ cur[c] \in Rows
        /\ sessions[cur[c]].user # user[c]
        /\ sessions[cur[c]].is_active

Foreign(sid, u) == sid \in Rows /\ sessions[sid].user # u
Missing(sid) == sid # None /\ sid \notin Rows
EndRefused == ErrorMsg("Failed to end session")
SyncRefused ==
    ErrorMsg("Failed to store metadata: Session matching query does not exist.")

\* C11: session.end and metadata.sync answer a session id owned by another
\* identity exactly as they answer an id that names no Session: the same
\* error reply in both cases, no Store change and nothing fanned out.
C11_ForeignLooksMissing ==
    [][\A c \in Conns :
         /\ \A sid \in SessionIds :
              /\ pc[c] = "idle" /\ pc'[c] = "session_end_reply"
              /\ cur'[c] = sid
              /\ Foreign(sid, user[c]) \/ Missing(sid)
              => ~success'[c] /\ sessions' = sessions
         /\ pc[c] = "session_end_reply" /\ ~success[c] /\ pc'[c] = "idle"
              => /\ outbox'[c] = Append(outbox[c], EndRefused)
                 /\ inbox' = inbox
         /\ \A sid \in SessionIds, blob \in BlobInputs, iv \in IvInputs :
              /\ HandleMetadataSync(c, sid, blob, iv)
              /\ Truthy(blob) /\ Truthy(iv)
              /\ Foreign(sid, user[c]) \/ Missing(sid)
              => /\ outbox'[c] = Append(outbox[c], SyncRefused)
                 /\ metadata' = metadata]_vars

\* C11 witness: one connection is being refused the end of another
\* identity's Session while the other is being refused an id that names no
\* Session.
C11_Witness ==
    \E c, d \in Conns :
        /\ pc[c] = "session_end_reply" /\ ~success[c]
        /\ Foreign(cur[c], user[c])
        /\ pc[d] = "session_end_reply" /\ ~success[d]
        /\ Missing(cur[d])

\* the frames receive() answers itself because their type resolves to no
\* handler: type absent, type not a string, type naming no handle_* method
UnrecognizedKinds ==
    {"missing_type", "nonstring_type"}
        \cup {t \in TypeTags : HandlerFor(t) = "None"}

Joined(u) == {c \in Conns : pc[c] \notin {"new", "closed"} /\ user[c] = u}

C15_SenderNotNotified ==
    /\ [][\A c \in Conns :
            /\ pc[c] \in {"session_start_reply", "session_end_reply"}
            /\ pc'[c] = "idle"
            => inbox'[c] = inbox[c]]_vars
    /\ [](\A c \in Conns, sid \in Rows :
            CountIn(outbox[c], Msg("session.started", sid, "", "")) > 0
                => Received(c, "started", sid) = 0)

OthersInGroup(c) == groups[user_group[c]] \ {c}

\* C16: session.start adds exactly one Session row, owned by the caller,
\* under an id no row had before; the session.started reply and the
\* session.update{started} queued for the group carry that id. A later
\* session.end of an active Session of the caller succeeds, and its
\* session.ended reply and session.update{ended} carry the id that was sent.
C16_SessionIdCarried ==
    [][\A c \in Conns :
         /\ pc[c] = "idle" /\ pc'[c] = "session_start_reply" =>
              /\ Len(sessions') = Len(sessions) + 1
              /\ \A i \in Rows : sessions'[i] = sessions[i]
              /\ cur'[c] = Len(sessions') /\ cur'[c] \notin Rows
              /\ sessions'[cur'[c]].user = user[c]
              /\ sessions'[cur'[c]].is_active
         /\ pc[c] = "session_start_reply" /\ pc'[c] = "idle" =>
              /\ cur[c] \in Rows /\ sessions[cur[c]].user = user[c]
              /\ outbox'[c] =
                    Append(outbox[c], Msg("session.started", cur[c], "", ""))
              /\ \A d \in OthersInGroup(c) :
                    inbox'[d] = Append(inbox[d], UpdateEvent("started", cur[c]))
         /\ \A sid \in Rows :
              /\ pc[c] = "idle" /\ pc'[c] = "session_end_reply"
              /\ cur'[c] = sid
              /\ sessions[sid].user = user[c] /\ sessions[sid].is_active
              => success'[c] /\ ~sessions'[sid].is_active
         /\ pc[c] = "session_end_reply" /\ success[c] /\ pc'[c] = "idle" =>
              /\ outbox'[c] =
                    Append(outbox[c], Msg("session.ended", cur[c], "", ""))
              /\ \A d \in OthersInGroup(c) :
                    inbox'[d] = Append(inbox[d], UpdateEvent("ended", cur[c]))
      ]_vars

\* C16 witness: a connection started a Session and ended it, was answered
\* session.started and session.ended with the new id, and its peer received
\* session.update started and ended with that same id.
C16_Witness ==
    \E c \in Conns, d \in Conns, sid \in Rows :
        /\ c # d /\ sid > Len(SeedSessions)
        /\ CountIn(outbox[c], Msg("session.started", sid, "", "")) = 1
        /\ CountIn(outbox[c], Msg("session.ended", sid, "", "")) = 1
        /\ Received(d, "started", sid) = 1
        /\ Received(d, "ended", sid) = 1
        /\ sessions[sid].user = user[c] /\ ~sessions[sid].is_active

InFlight(c) == pc[c] \in {"session_start_reply", "session_end_reply"}

\* C17: within one connection a frame is taken up only when no handler of
\* that connection is in flight, and the next thing a connection with a
\* handler in flight does is send that handler's reply: so frames are
\* handled one at a time in arrival order and their replies are sent in
\* that order.
C17_FramesInOrder ==
    [][\A c \in Conns :
         /\ frames' # frames /\ Acts(c) =>
              /\ pc[c] = "idle" /\ frame_type[c] = "" /\ cur[c] = None
              /\ pc'[c] = "idle" =>
                    Len(outbox'[c]) = Len(outbox[c]) + 1
         /\ InFlight(c) /\ Acts(c) =>
              /\ frames' = frames
              /\ pc'[c] = "idle"
              /\ Len(outbox'[c]) = Len(outbox[c]) + 1
              /\ outbox'[c][Len(outbox'[c])].type =
                    IF pc[c] = "session_start_reply" THEN "session.started"
                    ELSE IF success[c] THEN "session.ended" ELSE "error"
              /\ outbox'[c][Len(outbox'[c])].type # "error" =>
                    outbox'[c][Len(outbox'[c])].id = cur[c]]_vars

\* C17 witness: a connection was answered session.started for its first
\* frame and its second frame, ending that Session, is now in flight.
C17_Witness ==
    \E c \in Conns, sid \in Rows :
        /\ pc[c] = "session_end_reply" /\ cur[c] = sid /\ success[c]
        /\ CountIn(outbox[c], Msg("session.started", sid, "", "")) = 1
        /\ frames = MaxFrames

\* number of session.update messages connection c has been sent
RECURSIVE CountType(_, _)
CountType(q, t) ==
    IF q = <<>> THEN 0
    ELSE (IF Head(q).type = t THEN 1 ELSE 0) + CountType(Tail(q), t)

UpdatesReceived(c) == CountType(outbox[c], "session.update")

\* C18: delivery of a fan-out is independent per member. With one peer
\* allowed to stall for ever: a handler about to reply and fan out is never
\* blocked, whatever is still queued for any member; its fan-out adds the
\* event to the queue of every member; the sender finishes its handler; and
\* every other live member is sent what is queued for it although the slow
\* peer's queue is not drained.
C18_SlowPeerDoesNotBlock ==
    /\ [](\A c \in Conns :
            InFlight(c) =>
                ENABLED (SessionStartNotify(c) \/ SessionEndNotify(c)))
    /\ [][\A c \in Conns :
            InFlight(c) /\ Acts(c) /\ (pc[c] = "session_end_reply" => success[c])
            => \A d \in groups[user_group[c]] :
                  Len(inbox'[d]) = Len(inbox[d]) + 1]_vars
    /\ \A c \in Conns \ {SlowPeer} : InFlight(c) ~> pc[c] = "idle"
    /\ \A m \in Conns \ {SlowPeer}, n \in 0..(MaxFrames - 1) :
          (/\ Authenticated(m) /\ inbox[m] # <<>>
           /\ inbox[SlowPeer] # <<>>
           /\ UpdatesReceived(m) = n)
          ~> (Closed(m) \/ UpdatesReceived(m) > n)

\* C18 witness: an event is still queued, undelivered, for the slow peer
\* while the other member of the group has already been sent it.
C18_Witness ==
    \E m \in Conns \ {SlowPeer}, a \in {"started", "ended"}, sid \in Rows :
        /\ Authenticated(SlowPeer) /\ Authenticated(m)
        /\ user[m] = user[SlowPeer]
        /\ Queued(SlowPeer, a, sid) > 0 /\ Received(SlowPeer, a, sid) = 0
        /\ Received(m, a, sid) > 0

\* C19: the identity of a connection is set once, by the token check at
\* connect, and never changes afterwards. When the token expires while the
\* connection is open, nothing about the connection changes: it is not
\* closed as unauthenticated, it stays in its identity's group, and the
\* Sessions it creates or ends afterwards are those of that identity.
C19_IdentityFixedAtConnect ==
    /\ [][\A c \in Conns :
            Opened(c) =>
                /\ user'[c] = user[c]
                /\ user_group'[c] = user_group[c]]_vars
    /\ [][\A c \in Conns :
            token'[c] # token[c] /\ Opened(c) =>
                /\ pc' = pc /\ close_code' = close_code /\ groups' = groups
                /\ outbox' = outbox /\ inbox' = inbox]_vars
    /\ [](\A c \in Conns :
            Opened(c) /\ user[c] \in Users =>
                /\ user[c] = token[c].user_id
                /\ close_code[c] # AuthFailedCode
                /\ ~Closed(c) => c \in groups[GroupName(user[c])])
    /\ [][\A c \in Conns :
            Authenticated(c) /\ token[c].expired /\ Acts(c) =>
                /\ Len(sessions') > Len(sessions) =>
                      sessions'[Len(sessions')].user = token[c].user_id
                /\ \A i \in Rows :
                      sessions'[i] # sessions[i] =>
                          sessions[i].user = token[c].user_id]_vars

\* C19 witness: the token of a connection has expired and the connection,
\* still Authenticated, has a session.start in flight whose new Session is
\* owned by the identity the token named.
C19_Witness ==
    \E c \in Conns :
        /\ token[c].expired /\ user[c] \in Users
        /\ pc[c] = "session_start_reply"
        /\ sessions[cur[c]].user = user[c]

CatalogTags == {"session.start", "session.end", "metadata.sync", "presence.ping"}

\* C20: dispatch is a closed mapping: a handler is only ever in flight for a
\* frame whose type is one of the four catalogued tags; a frame with any
\* other type value starts no handler.
C20_ClosedDispatch ==
    \A c \in Conns : InFlight(c) => frame_type[c] \in CatalogTags

\* C21: a connection only moves Connecting -> Authenticated -> Closed or
\* Connecting -> Closed. Closed is terminal, a connection closed as
\* unauthenticated never becomes Authenticated, and a step that takes up a
\* frame, touches the Store or sends a fanned-out event is taken only by a
\* connection that is Authenticated, with an identity and in its group.
C21_LifecycleOneWay ==
    /\ [][\A c \in Conns :
            /\ Closed(c) => Closed(c)'
            /\ Authenticated(c) => Authenticated(c)' \/ Closed(c)'
            /\ pc[c] = "new" => pc'[c] \in {"new", "accept", "closed"}
            /\ pc[c] = "accept" => pc'[c] \in {"accept", "idle"}
            /\ close_code[c] = AuthFailedCode =>
                  Closed(c)' /\ close_code'[c] = AuthFailedCode
            /\ (frames' # frames \/ pc[c] \notin {"new", "accept"}) /\ Acts(c)
                  => Authenticated(c)]_vars
    /\ [](\A c \in Conns :
            /\ Authenticated(c) =>
                  user[c] \in Users /\ c \in groups[GroupName(user[c])]
            /\ Opened(c) /\ ~is_authenticated(user[c]) =>
                  Closed(c) /\ close_code[c] = AuthFailedCode)

\* C21 witness: one connection went Connecting -> Authenticated -> Closed
\* after handling a frame, the other went Connecting -> Closed at the
\* token check.
C21_Witness ==
    \E c \in Conns, d \in Conns :
        /\ Closed(c) /\ user[c] \in Users /\ Len(outbox[c]) >= 2
        /\ Closed(d) /\ close_code[d] = AuthFailedCode /\ outbox[d] = <<>>

\* every shape a presented token can have: any combination of defects with
\* any user_id claim
TokenShapes ==
    {Tok(p, w, s, e, u) :
        p \in BOOLEAN, w \in BOOLEAN, s \in BOOLEAN, e \in BOOLEAN,
        u \in {None, GhostId} \cup Users}

C24_MetadataSyncNoFanOut ==
    [][\A c \in Conns, sid \in SessionIds, blob \in BlobInputs,
          iv \in IvInputs :
          HandleMetadataSync(c, sid, blob, iv) =>
              /\ inbox' = inbox
              /\ \A d \in Conns \ {c} : outbox'[d] = outbox[d]
              /\ Len(outbox'[c]) = Len(outbox[c]) + 1
              /\ outbox'[c][Len(outbox'[c])].type
                    \in {"metadata.synced", "error"}
              /\ outbox'[c][Len(outbox'[c])].type = "metadata.synced"
                    <=> Len(metadata') = Len(metadata) + 1]_vars

\* C24 witness: a connection has stored a metadata record and been answered
\* metadata.synced while its peer of the same identity, Authenticated
\* throughout, has been sent nothing but connection.established and has
\* nothing queued.
C24_Witness ==
    \E c \in Conns, d \in Conns :
        /\ c # d /\ Authenticated(c) /\ Authenticated(d) /\ user[c] = user[d]
        /\ metadata # <<>>
        /\ CountType(outbox[c], "metadata.synced") = 1
        /\ Len(outbox[d]) = 1 /\ inbox[d] = <<>>

\* C25: a presence.ping is answered with exactly one presence.pong to the
\* sender; Sessions, metadata records and group memberships are unchanged,
\* nothing is queued for fan-out and nothing is sent to another connection.
C25_PingOnlyPongs ==
    [][\A c \in Conns :
          HandlePresencePing(c) =>
              /\ outbox'[c] =
                    Append(outbox[c], Msg("presence.pong", None, "", ""))
              /\ \A d \in Conns \ {c} : outbox'[d] = outbox[d]
              /\ sessions' = sessions /\ metadata' = metadata
              /\ groups' = groups /\ inbox' = inbox
              /\ pc' = pc]_vars

\* C25 witness: a connection has been answered presence.pong twice while
\* its peer of the same identity has been sent and queued nothing more.
C25_Witness ==
    \E c \in Conns, d \in Conns :
        /\ c # d /\ Authenticated(c) /\ Authenticated(d) /\ user[c] = user[d]
        /\ CountType(outbox[c], "presence.pong") = 2
        /\ Len(outbox[d]) = 1 /\ inbox[d] = <<>>
        /\ sessions = SeedSessions /\ metadata = <<>>

\* C26: every persisted metadata record has an iv of exactly 12 bytes.
C26_StoredIvIsTwelveBytes ==
    \A m \in 1..Len(metadata) : metadata[m].iv = IvBytes

\* C27: no step deletes a Session or a metadata record; an existing
\* metadata record never changes; an existing Session keeps its id, owner,
\* started_at and title, and changes at all only in the Store step of a
\* session.end naming it.
C27_GatewayOnlyEnds ==
    [][/\ Len(sessions') >= Len(sessions)
       /\ Len(metadata') >= Len(metadata)
       /\ \A m \in 1..Len(metadata) : metadata'[m] = metadata[m]
       /\ \A i \in Rows :
            /\ sessions'[i].user = sessions[i].user
            /\ sessions'[i].started_at = sessions[i].started_at
            /\ sessions'[i].title = sessions[i].title
            /\ sessions'[i] # sessions[i] =>
                  \E c \in Conns :
                      /\ pc[c] = "idle" /\ pc'[c] = "session_end_reply"
                      /\ cur'[c] = i /\ success'[c]
                      /\ frame_type'[c] = "session.end"]_vars

\* C27 witness: a Session created through the gateway has been ended and
\* still has its owner, its title and a started_at not after its ended_at,
\* and the seeded rows are as they were seeded.
C27_Witness ==
    \E i \in Rows :
        /\ i > Len(SeedSessions)
        /\ ~sessions[i].is_active /\ sessions[i].ended_at # Null
        /\ sessions[i].title = "" /\ sessions[i].user \in Users
        /\ sessions[i].started_at <= sessions[i].ended_at
        /\ \A j \in 1..Len(SeedSessions) : sessions[j] = SeedSessions[j]

Untouched(row) ==
    row.is_active /\ row.ended_at = Null /\ row.duration_seconds = Null
FullyEnded(row) ==
    ~row.is_active /\ row.ended_at # Null /\ row.duration_seconds # Null

\* C28: every Session row any connection can observe is either as it was
\* created or fully ended, with ended_at, is_active and duration_seconds
\* all written; a step that changes a row leaves it fully ended; a new
\* Session or metadata record appears whole; and the step in which a
\* connection closes changes no Session and no metadata record.
C28_StoreOperationsAtomic ==
    /\ [](\A i \in Rows : Untouched(sessions[i]) \/ FullyEnded(sessions[i]))
    /\ [][/\ \A i \in Rows :
               sessions'[i] # sessions[i] => FullyEnded(sessions'[i])
          /\ Len(sessions') > Len(sessions) =>
               /\ Len(sessions') = Len(sessions) + 1
               /\ Untouched(sessions'[Len(sessions')])
               /\ sessions'[Len(sessions')].user \in Users
          /\ Len(metadata') > Len(metadata) =>
               /\ Len(metadata') = Len(metadata) + 1
               /\ metadata'[Len(metadata')].session \in Rows
               /\ metadata'[Len(metadata')].iv # DecodeError
               /\ metadata'[Len(metadata')].encrypted_blob # DecodeError
          /\ \A c \in Conns :
               ~Closed(c) /\ Closed(c)' =>
                   sessions' = sessions /\ metadata' = metadata]_vars

\* C28 witness: one connection's session.end has written its row and is
\* still in flight while another connection's session.end of the same
\* Session has read that row, fully ended, and is in flight too.
C28_Witness ==
    \E c \in Conns, d \in Conns :
        /\ c # d
        /\ pc[c] = "session_end_reply" /\ success[c]
        /\ pc[d] = "session_end_reply" /\ success[d]
        /\ cur[c] = cur[d]
        /\ FullyEnded(sessions[cur[c]])

\* C29: when the Store fails under a handler, the error reply the client is
\* sent carries no detail of the failure: no message sent to any connection
\* contains the text of the backend's exception.
C29_BackendDetailNotSent ==
    \A c \in Conns : \A i \in 1..Len(outbox[c]) :
        outbox[c][i].message \notin
            {BackendDetail, InternalErrorText(BackendDetail),
             StoreMetadataErrorText(BackendDetail)}

\* C30: a session.end with no session_id, and a metadata.sync lacking its
\* session_id, its encrypted blob or its iv, is answered at once with the
\* handler's own error reply: the handler makes no Store call (no row is
\* added or changed, the clock is not read, no lookup result is kept) and
\* queues no fan-out.
C30_MissingFieldNoStoreAccess ==
    [][\A c \in Conns :
         /\ \A t \in TypeTags :
              HandleSessionEnd(c, t, None) =>
                  /\ outbox'[c] =
                        Append(outbox[c], ErrorMsg("Missing session_id"))
                  /\ pc' = pc /\ cur' = cur /\ success' = success
                  /\ sessions' = sessions /\ metadata' = metadata
                  /\ now' = now /\ inbox' = inbox
         /\ \A sid \in SessionIds, blob \in BlobInputs, iv \in IvInputs :
              /\ HandleMetadataSync(c, sid, blob, iv)
              /\ sid = None \/ blob = EmptyText \/ iv = EmptyText
              => /\ outbox'[c] =
                       Append(outbox[c],
                           ErrorMsg("Missing required fields for metadata sync"))
                 /\ pc' = pc
                 /\ sessions' = sessions /\ metadata' = metadata
                 /\ now' = now /\ inbox' = inbox]_vars

\* C30 witness: a connection has been answered both "Missing session_id"
\* and "Missing required fields for metadata sync" and the Store is as it
\* was seeded.
C30_Witness ==
    \E c \in Conns :
        /\ CountIn(outbox[c], ErrorMsg("Missing session_id")) = 1
        /\ CountIn(outbox[c],
              ErrorMsg("Missing required fields for metadata sync")) = 1
        /\ sessions = SeedSessions /\ metadata = <<>> /\ now = 0

\* the session.update events queued for, and the session.update messages
\* sent to, connection d, as (action, session id) pairs
UpdatesSeen(d) ==
    {<<inbox[d][i].action, inbox[d][i].session_id>> : i \in 1..Len(inbox[d])}
        \cup {<<outbox[d][i].action, outbox[d][i].id>> :
                  i \in {j \in 1..Len(outbox[d]) :
                            outbox[d][j].type = "session.update"}}

\* C31: a session.update queued for or sent to any connection names a
\* change the Store already holds: its Session exists, and if its action is
\* "ended" that Session is inactive with ended_at set; a session.end that
\* end_session refused queues no session.update for anyone.
C31_UpdateAfterCommit ==
    /\ [](\A d \in Conns : \A u \in UpdatesSeen(d) :
            /\ u[1] \in {"started", "ended"}
            /\ u[2] \in Rows
            /\ u[1] = "ended" =>
                  /\ ~sessions[u[2]].is_active
                  /\ sessions[u[2]].ended_at # Null)
    /\ [][\A c \in Conns :
            pc[c] = "session_end_reply" /\ ~success[c] /\ Acts(c) =>
                inbox' = inbox]_vars

\* C31 witness: a connection was refused a session.end, and the only
\* session.update its peer of the same identity has been sent is the
\* "ended" of a Session that is inactive in the Store.
C31_Witness ==
    \E c \in Conns, d \in Conns, sid \in Rows :
        /\ c # d /\ user[c] = user[d]
        /\ CountIn(outbox[c], ErrorMsg("Failed to end session")) = 1
        /\ Received(d, "ended", sid) = 1
        /\ UpdatesReceived(d) = 1 /\ inbox[d] = <<>>
        /\ ~sessions[sid].is_active

\* C32: handling one frame sends the sender exactly one direct reply: a
\* step that takes up a frame and completes its handler, and a step that
\* completes a handler in flight, each add exactly one message to what the
\* sender has been sent, and a step that takes up a frame and leaves its
\* handler in flight adds none.
C32_OneReplyPerFrame ==
    [][\A c \in Conns :
         /\ frames' # frames /\ Acts(c) =>
              Len(outbox'[c]) =
                  Len(outbox[c]) + (IF pc'[c] = "idle" THEN 1 ELSE 0)
         /\ InFlight(c) /\ Acts(c) =>
              /\ Len(outbox'[c]) = Len(outbox[c]) + 1
              /\ outbox'[c][Len(outbox'[c])].type
                    \in {"session.started", "session.ended", "error"}]_vars

\* C33: the gateway's session.end decides as the REST end action does for
\* the same caller and Session: end_session reports success exactly when
\* the REST action would answer 200, and a Session the REST action would
\* refuse as not found or already ended is left unchanged by the gateway.
C33_EndAgreesWithRest ==
    [][\A c \in Conns, sid \in SessionIds \ {None} :
         /\ pc[c] = "idle" /\ pc'[c] = "session_end_reply"
         /\ cur'[c] = sid
         => /\ success'[c] <=> SessionViewSet_end(sid, user[c]) = "200 ended"
            /\ SessionViewSet_end(sid, user[c]) # "200 ended" =>
                  sessions' = sessions]_vars

\* C34: the Store step of a session.start leaves every existing Session
\* and every metadata record exactly as it was, so an identity can hold
\* several active Sessions at once.
C34_StartLeavesOthers ==
    [][\A c \in Conns :
         pc[c] = "idle" /\ pc'[c] = "session_start_reply" =>
             /\ \A i \in Rows : sessions'[i] = sessions[i]
             /\ Len(sessions') = Len(sessions) + 1
             /\ metadata' = metadata]_vars

\* C34 witness: after a session.start one identity owns two active
\* Sessions, the seeded one unchanged and the new one.
C34_Witness ==
    \E c \in Conns, i \in Rows, j \in Rows :
        /\ i <= Len(SeedSessions) /\ j > Len(SeedSessions)
        /\ CountIn(outbox[c], Msg("session.started", j, "", "")) = 1
        /\ sessions[i].user = user[c] /\ sessions[j].user = user[c]
        /\ sessions[i] = SeedSessions[i]
        /\ sessions[i].is_active /\ sessions[j].is_active

\* C35: a metadata.sync with all three fields present and decodable, naming
\* a Session the caller owns, adds one record under that Session and is
\* answered metadata.synced whether the Session is active or ended; no
\* metadata.sync, whatever its outcome, changes any Session.
C35_SyncIgnoresSessionState ==
    [][\A c \in Conns, sid \in SessionIds, blob \in BlobInputs,
          iv \in IvInputs :
          HandleMetadataSync(c, sid, blob, iv) =>
              /\ sessions' = sessions
              /\ /\ sid \in Rows /\ sessions[sid].user = user[c]
                 /\ blob # EmptyText /\ iv # EmptyText
                 /\ b64decode(blob) # DecodeError /\ b64decode(iv) # DecodeError
                 => /\ Len(metadata') = Len(metadata) + 1
                    /\ metadata'[Len(metadata')].session = sid
                    /\ outbox'[c] =
                          Append(outbox[c],
                              Msg("metadata.synced", Len(metadata'), "", ""))]_vars

\* C35 witness: a metadata record was stored under a Session of the caller
\* after that Session had ended, and was answered metadata.synced.
C35_Witness ==
    \E c \in Conns, m \in 1..Len(metadata) :
        /\ ~sessions[metadata[m].session].is_active
        /\ metadata[m].created_at > sessions[metadata[m].session].ended_at
        /\ sessions[metadata[m].session].user = user[c]
        /\ CountIn(outbox[c], Msg("metadata.synced", m, "", "")) = 1

====
